---- MODULE Spec2Model ----
(***************************************************************************)
(* A model of codegather.py: the rule-file parser (parse_config), the      *)
(* exclude matcher (is_excluded), and the two commands (handle_init_command*)
(* and handle_run_command) acting on a file system.                        *)
(*                                                                         *)
(* A Python str is a sequence of one-character strings, so that strip,     *)
(* split, startswith and fnmatch are computed character by character.      *)
(* An optional value (Python None or a value) is a sequence of length 0    *)
(* or 1.  A file's content is the sequence of its lines (a rule file) or   *)
(* of the strings written to it (an output file).                          *)
(***************************************************************************)
EXTENDS Integers, Sequences, FiniteSets, TLC

\* ------------------------------------------------------------------------
\* Python values

None == <<>>
Some(v) == <<v>>
IsNone(o) == o = <<>>
Val(o) == o[1]

\* bool(x) of an optional str: None and "" are falsy
Truthy(o) == o # <<>> /\ o[1] # <<>>

\* ------------------------------------------------------------------------
\* str operations

Whitespace == {" ", "\t", "\n", "\r"}

Letters == {"a","b","c","d","e","f","g","h","i","j","k","l","m","n","o","p","q","r","s","t","u","v","w","x","y","z","A","B","C","D","E","F","G","H","I","J","K","L","M","N","O","P","Q","R","S","T","U","V","W","X","Y","Z"}

Digits == {"0","1","2","3","4","5","6","7","8","9"}

isalnum(c) == c \in Letters \cup Digits

UpperCase == <<"A","B","C","D","E","F","G","H","I","J","K","L","M","N","O","P","Q","R","S","T","U","V","W","X","Y","Z">>

LowerCase == <<"a","b","c","d","e","f","g","h","i","j","k","l","m","n","o","p","q","r","s","t","u","v","w","x","y","z">>

LowerChar(c) ==
    IF \E i \in 1..26 : UpperCase[i] = c
    THEN LowerCase[CHOOSE i \in 1..26 : UpperCase[i] = c]
    ELSE c

lower(s) == [i \in 1..Len(s) |-> LowerChar(s[i])]

\* s.replace(a, b) for one-character a and b
replace(s, a, b) == [i \in 1..Len(s) |-> IF s[i] = a THEN b ELSE s[i]]

Contains(s, c) == \E i \in 1..Len(s) : s[i] = c

\* index of the first occurrence of c in s (c occurs in s)
Find(s, c) == CHOOSE i \in 1..Len(s) : s[i] = c /\ \A j \in 1..(i-1) : s[j] # c

startswith(s, p) == Len(s) >= Len(p) /\ SubSeq(s, 1, Len(p)) = p

endswith(s, p) == Len(s) >= Len(p) /\ SubSeq(s, Len(s) - Len(p) + 1, Len(s)) = p

RECURSIVE lstrip(_)
lstrip(s) == IF s # <<>> /\ Head(s) \in Whitespace THEN lstrip(Tail(s)) ELSE s

RECURSIVE rstrip(_)
rstrip(s) ==
    IF s # <<>> /\ s[Len(s)] \in Whitespace THEN rstrip(SubSeq(s, 1, Len(s) - 1)) ELSE s

strip(s) == rstrip(lstrip(s))

\* s.rstrip('/'): every trailing '/' goes
RECURSIVE rstrip_slash(_)
rstrip_slash(s) ==
    IF s # <<>> /\ s[Len(s)] = "/" THEN rstrip_slash(SubSeq(s, 1, Len(s) - 1)) ELSE s

\* s.split(c, 1): the parts before and after the first c
split_first(s, c) ==
    LET i == Find(s, c)
    IN  <<SubSeq(s, 1, i - 1), SubSeq(s, i + 1, Len(s))>>

\* s.split(c): every part
RECURSIVE split(_, _)
split(s, c) ==
    IF Contains(s, c)
    THEN <<split_first(s, c)[1]>> \o split(split_first(s, c)[2], c)
    ELSE <<s>>

\* fnmatch.fnmatchcase(name, pat) for patterns made of '*', '?' and literal
\* characters ('[' is in no alphabet of this model)
RECURSIVE fnmatchcase(_, _)
fnmatchcase(name, pat) ==
    IF pat = <<>> THEN name = <<>>
    ELSE IF Head(pat) = "*"
         THEN fnmatchcase(name, Tail(pat))
              \/ (name # <<>> /\ fnmatchcase(Tail(name), pat))
    ELSE IF name = <<>> THEN FALSE
    ELSE IF Head(pat) = "?" THEN fnmatchcase(Tail(name), Tail(pat))
    ELSE Head(name) = Head(pat) /\ fnmatchcase(Tail(name), Tail(pat))

\* ------------------------------------------------------------------------
\* Configuration constants

DEFAULT_CONFIG_FILENAME == <<".","c","o","d","e","g","a","t","h","e","r","i","g","n","o","r","e">>

DEFAULT_INIT_SESSION_PROMPT_FILENAME == <<".","c","o","d","e","g","a","t","h","e","r","_","s","e","s","s","i","o","n","_","p","r","o","m","p","t",".","t","x","t">>

DEFAULT_OUTPUT_FILENAME == <<"c","o","m","b","i","n","e","d","_","c","o","d","e",".","t","x","t">>

DEFAULT_NO_HEADER_STATE == FALSE

DEFAULT_SCRIPT_INCLUDE_EXTENSIONS == <<<<"*",".","j","s">>, <<"*",".","j","s","x">>>>

SESSION_PROMPT_CODE_SEPARATOR == <<"\n","\n","-","-",">"," ","c","o","d","e"," ","f","i","l","e","s"," ","c","o","m","b","i","n","e"," ","s","t","a","r","t","s"," ","h","e","r","e",":"," ","<","-","-","\n","\n">>

FILES_COUNT_WARNING_THRESHOLD == 300

DEFAULT_CONFIG_TEMPLATE ==
    << <<"#"," ","C","o","d","e","G","a","t","h","e","r"," ","C","o","n","f","i","g","u","r","a","t","i","o","n"," ","F","i","l","e"," ","(",".","c","o","d","e","g","a","t","h","e","r","i","g","n","o","r","e",")">>,
       <<"#"," ","T","h","i","s"," ","f","i","l","e"," ","d","e","f","i","n","e","s"," ","h","o","w"," ","c","o","d","e","g","a","t","h","e","r"," ","p","r","o","c","e","s","s","e","s"," ","y","o","u","r"," ","p","r","o","j","e","c","t",".">>,
       <<>>,
       <<"#"," ","-","-","-"," ","G","e","n","e","r","a","l"," ","C","o","n","f","i","g","u","r","a","t","i","o","n"," ","-","-","-">>,
       <<"#"," ","T","h","e","s","e"," ","s","e","t","t","i","n","g","s"," ","c","a","n"," ","b","e"," ","o","v","e","r","r","i","d","d","e","n"," ","b","y"," ","c","o","m","m","a","n","d","-","l","i","n","e"," ","a","r","g","u","m","e","n","t","s",".">>,
       <<"#"," ","U","n","c","o","m","m","e","n","t"," ","a","n","d"," ","s","e","t"," ","v","a","l","u","e","s"," ","a","s"," ","n","e","e","d","e","d",".">>,
       <<>>,
       <<"#"," ","o","u","t","p","u","t","_","f","i","l","e",":"," ","c","o","m","b","i","n","e","d","_","p","r","o","j","e","c","t","_","c","o","d","e",".","t","x","t">>,
       <<"s","e","s","s","i","o","n","_","p","r","o","m","p","t","_","f","i","l","e",":"," ",".","c","o","d","e","g","a","t","h","e","r","_","s","e","s","s","i","o","n","_","p","r","o","m","p","t",".","t","x","t"," ","#"," ","D","e","f","a","u","l","t"," ","n","a","m","e"," ","c","r","e","a","t","e","d"," ","b","y"," ","'","i","n","i","t","'">>,
       <<"#"," ","n","o","_","h","e","a","d","e","r",":"," ","f","a","l","s","e">>,
       <<"#"," ","d","e","f","a","u","l","t","_","e","x","t","e","n","s","i","o","n","s",":"," ","*",".","p","y",","," ","*",".","t","s"," ","#"," ","A","l","t","e","r","n","a","t","i","v","e",":"," ","d","e","f","i","n","e"," ","d","e","f","a","u","l","t"," ","e","x","t","e","n","s","i","o","n","s"," ","h","e","r","e">>,
       <<>>,
       <<"#"," ","-","-","-"," ","F","i","l","e"," ","T","y","p","e","s"," ","t","o"," ","I","n","c","l","u","d","e"," ","-","-","-">>,
       <<"#"," ","A","d","d"," ","g","l","o","b"," ","p","a","t","t","e","r","n","s"," ","f","o","r"," ","f","i","l","e"," ","e","x","t","e","n","s","i","o","n","s"," ","y","o","u"," ","w","a","n","t"," ","t","o"," ","i","n","c","l","u","d","e"," ","(","o","n","e"," ","p","e","r"," ","l","i","n","e",")",".">>,
       <<"#"," ","I","f"," ","a","n","y"," ","p","a","t","t","e","r","n","s"," ","a","r","e"," ","l","i","s","t","e","d"," ","h","e","r","e",","," ","t","h","e","y"," ","t","a","k","e"," ","p","r","e","c","e","d","e","n","c","e"," ","o","v","e","r"," ","'","d","e","f","a","u","l","t","_","e","x","t","e","n","s","i","o","n","s","'",".">>,
       <<"#"," ","E","x","a","m","p","l","e","s",":">>,
       <<"*",".","j","s">>,
       <<"*",".","j","s","x">>,
       <<"#"," ","*",".","p","y">>,
       <<"#"," ","*",".","t","s">>,
       <<"#"," ","*",".","h","t","m","l">>,
       <<"#"," ","*",".","c","s","s">>,
       <<>>,
       <<"#"," ","-","-","-"," ","F","i","l","e","s"," ","a","n","d"," ","D","i","r","e","c","t","o","r","i","e","s"," ","t","o"," ","E","x","c","l","u","d","e"," ","-","-","-">>,
       <<"#"," ","A","d","d"," ","g","l","o","b"," ","p","a","t","t","e","r","n","s"," ","f","o","r"," ","f","i","l","e","s"," ","o","r"," ","d","i","r","e","c","t","o","r","i","e","s"," ","t","o"," ","e","x","c","l","u","d","e"," ","(","o","n","e"," ","p","e","r"," ","l","i","n","e",")",".">>,
       <<"#"," ","D","i","r","e","c","t","o","r","y"," ","p","a","t","t","e","r","n","s"," ","s","h","o","u","l","d"," ","e","n","d"," ","w","i","t","h"," ","a"," ","'","/","'"," ","(","e",".","g",".",","," ","n","o","d","e","_","m","o","d","u","l","e","s","/",")",".">>,
       <<"n","o","d","e","_","m","o","d","u","l","e","s","/">>,
       <<".","g","i","t","/">>,
       <<"d","i","s","t","/">>,
       <<"b","u","i","l","d","/">>,
       <<"v","e","n","v","/">>,
       <<"_","_","p","y","c","a","c","h","e","_","_","/">>,
       <<"*",".","l","o","g">>,
       <<"*",".","t","m","p">>,
       <<"#"," ","c","o","m","b","i","n","e","d","_","c","o","d","e",".","t","x","t"," ","#"," ","G","o","o","d"," ","p","r","a","c","t","i","c","e"," ","t","o"," ","e","x","c","l","u","d","e"," ","t","h","e"," ","d","e","f","a","u","l","t"," ","o","u","t","p","u","t"," ","f","i","l","e"," ","n","a","m","e">>,
       <<"#"," ",".","c","o","d","e","g","a","t","h","e","r","_","s","e","s","s","i","o","n","_","p","r","o","m","p","t",".","t","x","t"," ","#"," ","A","l","s","o"," ","e","x","c","l","u","d","e"," ","y","o","u","r"," ","s","e","s","s","i","o","n"," ","p","r","o","m","p","t"," ","f","i","l","e"," ","i","t","s","e","l","f">>,
       <<".","D","S","_","S","t","o","r","e">> >>

\* The session prompt template, cut to the lines around the placeholder that
\* handle_run_command replaces; the placeholder is a piece of its own.
ROOT_NAME_PLACEHOLDER == <<"[","r","o","o","t"," ","d","i","r","e","c","t","o","r","y"," ","n","a","m","e","]">>

DEFAULT_SESSION_PROMPT_TEMPLATE ==
    << <<"H","e","l","l","o",",","\n","\n","P","r","o","j","e","c","t"," ","C","o","n","t","e","x","t",":","\n","\n","N","a","m","e",":"," ">>,
       ROOT_NAME_PLACEHOLDER,
       <<"\n","T","h","a","n","k"," ","y","o","u",".","\n">> >>

\* ------------------------------------------------------------------------
\* parse_config

key_output_file == <<"o","u","t","p","u","t","_","f","i","l","e">>

key_no_header == <<"n","o","_","h","e","a","d","e","r">>

key_default_extensions == <<"d","e","f","a","u","l","t","_","e","x","t","e","n","s","i","o","n","s">>

key_session_prompt_file == <<"s","e","s","s","i","o","n","_","p","r","o","m","p","t","_","f","i","l","e">>

TrueWords == {<<"t","r","u","e">>, <<"y","e","s">>, <<"1">>, <<"o","n">>}

EmptySettings ==
    [output_file |-> None, no_header |-> None,
     default_extensions_str |-> None, session_prompt_file |-> None]

\* the value of a key-value line: the text after the first ':', cut at the
\* first '#', stripped
KeyValueValue(value_raw) ==
    IF Contains(value_raw, "#")
    THEN strip(split_first(value_raw, "#")[1])
    ELSE strip(value_raw)

\* the settings after a key-value line
ApplyKeyValue(settings, stripped_line) ==
    LET kv    == split_first(stripped_line, ":")
        key   == replace(lower(strip(kv[1])), "-", "_")
        value == KeyValueValue(kv[2])
    IN  IF key = key_output_file
        THEN [settings EXCEPT !.output_file = Some(value)]
        ELSE IF key = key_no_header
        THEN [settings EXCEPT !.no_header = Some(lower(value) \in TrueWords)]
        ELSE IF key = key_default_extensions
        THEN [settings EXCEPT !.default_extensions_str = Some(value)]
        ELSE IF key = key_session_prompt_file
        THEN [settings EXCEPT !.session_prompt_file = Some(value)]
        ELSE settings

IsIncludeLineNoDot(stripped_line) ==
    /\ startswith(stripped_line, <<"*", ".">>)
    /\ ~Contains(stripped_line, "/")
    /\ ~Contains(stripped_line, "\\")
    /\ LET ext_part == SubSeq(stripped_line, 3, Len(stripped_line))
       IN  ext_part # <<>> /\ \A i \in 1..Len(ext_part) : isalnum(ext_part[i])

\* whether a pattern line is an include-extension pattern
IsIncludeLine(stripped_line) ==
    /\ startswith(stripped_line, <<"*", ".">>)
    /\ ~Contains(stripped_line, "/")
    /\ ~Contains(stripped_line, "\\")
    /\ LET ext_part == SubSeq(stripped_line, 3, Len(stripped_line))
       IN  /\ ext_part # <<>>
           /\ \A i \in 1..Len(ext_part) : isalnum(ext_part[i]) \/ ext_part[i] = "."

\* one iteration of the loop over the rule file's lines;
\* acc = [settings, include_extension_patterns, exclude_patterns]
ParseLine(acc, line_content) ==
    LET stripped_line == strip(line_content)
    IN  IF stripped_line = <<>> \/ Head(stripped_line) = "#" THEN acc
        ELSE IF Contains(stripped_line, ":")
        THEN [acc EXCEPT !.settings = ApplyKeyValue(@, stripped_line)]
        ELSE IF IsIncludeLine(stripped_line)
        THEN [acc EXCEPT !.include_extension_patterns = Append(@, stripped_line)]
        ELSE [acc EXCEPT !.exclude_patterns = Append(@, stripped_line)]

RECURSIVE ParseLines(_, _)
ParseLines(acc, lines) ==
    IF lines = <<>> THEN acc ELSE ParseLines(ParseLine(acc, Head(lines)), Tail(lines))

\* the expansion without the case of a token that starts with '.'
ExpandExtensionNoDotCase(e) ==
    IF startswith(e, <<"*", ".">>) THEN e ELSE <<"*", ".">> \o e

\* a default_extensions token as an include pattern
ExpandExtension(e) ==
    IF startswith(e, <<"*", ".">>) THEN e
    ELSE IF startswith(e, <<".">>) THEN <<"*">> \o e
    ELSE <<"*", ".">> \o e

\* the tokens of default_extensions: split at ',', stripped, empty ones dropped
ExtensionTokens(ext_list_str) ==
    LET parts    == split(ext_list_str, ",")
        stripped == [i \in 1..Len(parts) |-> strip(parts[i])]
    IN  SelectSeq(stripped, LAMBDA e : e # <<>>)

FinalIncludeNoFallback(include_extension_patterns, default_extensions_str) ==
    include_extension_patterns

\* the include patterns parse_config returns
FinalIncludeExtensions(include_extension_patterns, default_extensions_str) ==
    IF include_extension_patterns # <<>> THEN include_extension_patterns
    ELSE IF Truthy(default_extensions_str)
    THEN LET raw_ext_list == ExtensionTokens(Val(default_extensions_str))
         IN  [i \in 1..Len(raw_ext_list) |-> ExpandExtension(raw_ext_list[i])]
    ELSE DEFAULT_SCRIPT_INCLUDE_EXTENSIONS

\* ------------------------------------------------------------------------
\* Paths and the file system

\* Path.is_absolute
is_absolute(s) == s # <<>> /\ Head(s) = "/"

\* a / b
join(a, b) == a \o <<"/">> \o b

\* Path(s).resolve() in working directory wd, for the paths of this model
\* (no symbolic link and no '..' segment)
resolve(wd, s) ==
    IF is_absolute(s) THEN s
    ELSE IF s = <<".">> THEN wd
    ELSE join(wd, s)

\* index of the last '/' of s, 0 when it has none
LastSlash(s) ==
    IF Contains(s, "/")
    THEN CHOOSE i \in 1..Len(s) : s[i] = "/" /\ \A j \in (i+1)..Len(s) : s[j] # "/"
    ELSE 0

\* Path.name
name(path) == SubSeq(path, LastSlash(path) + 1, Len(path))

\* Path.parent
parent(path) ==
    IF LastSlash(path) <= 1 THEN <<"/">> ELSE SubSeq(path, 1, LastSlash(path) - 1)

\* Path.is_relative_to
is_relative_to(path, base) == startswith(path, base \o <<"/">>)

\* Path.relative_to, as the string the code compares (path is under base)
relative_to(path, base) == SubSeq(path, Len(base) + 2, Len(path))

is_file(files, path) == path \in DOMAIN files /\ files[path].kind = "file"

is_dir(files, path) == path \in DOMAIN files /\ files[path].kind = "dir"

Dir == [kind |-> "dir", readable |-> TRUE, content |-> <<>>]

File(content) == [kind |-> "file", readable |-> TRUE, content |-> content]

Unreadable(content) == [kind |-> "file", readable |-> FALSE, content |-> content]

\* path and its ancestors below '/'
RECURSIVE Ancestors(_)
Ancestors(path) ==
    IF Len(path) <= 1 THEN {} ELSE {path} \cup Ancestors(parent(path))

\* Path.mkdir(parents=True, exist_ok=True) raises when the path or one of its
\* ancestors is a regular file
mkdir_raises(files, path) == \E a \in Ancestors(path) : is_file(files, a)

\* the file system after Path.mkdir(parents=True, exist_ok=True)
mkdir(files, path) ==
    [p \in DOMAIN files \cup Ancestors(path) |->
        IF p \in DOMAIN files THEN files[p] ELSE Dir]

\* open(path, 'w') raises when path is a directory or has no parent directory
open_w_raises(files, path) == is_dir(files, path) \/ ~is_dir(files, parent(path))

\* the file system after open(path, 'w') and the writes of content
write_file(files, path, content) ==
    [p \in DOMAIN files \cup {path} |->
        IF p = path THEN File(content) ELSE files[p]]

\* the decimal digits of n, three of them
DecimalDigits(n) ==
    LET d == <<"0", "1", "2", "3", "4", "5", "6", "7", "8", "9">>
    IN  <<d[(n \div 100) + 1], d[((n \div 10) % 10) + 1], d[(n % 10) + 1]>>

\* the i-th source file of a directory with many of them
ManyFilePath(i) == <<"/","p","/","m","a","n","y","/","f">> \o DecimalDigits(i) \o <<".","j","s">>

\* the paths of the projects with few entries, a directory before its entries
NamedEntries ==
    << <<"/","p","/",".","c","o","d","e","g","a","t","h","e","r","i","g","n","o","r","e">>,
       <<"/","p","/",".","c","o","d","e","g","a","t","h","e","r","_","s","e","s","s","i","o","n","_","p","r","o","m","p","t",".","t","x","t">>,
       <<"/","p","/","a">>,
       <<"/","p","/","a","/","b">>,
       <<"/","p","/","a","/","b","/","c">>,
       <<"/","p","/","a","/","b","/","c","/","o","u","t",".","l","o","g">>,
       <<"/","p","/","a","/","x",".","l","o","g">>,
       <<"/","p","/","b">>,
       <<"/","p","/","b","/","o","u","t",".","l","o","g">>,
       <<"/","p","/","b","u","i","l","d">>,
       <<"/","p","/","b","u","i","l","d","/","x",".","j","s">>,
       <<"/","p","/","c","o","m","b","i","n","e","d","_","c","o","d","e",".","t","x","t">>,
       <<"/","p","/","m","a","i","n",".","j","s">>,
       <<"/","p","/","m","i","s","s","i","n","g">>,
       <<"/","p","/","m","i","s","s","i","n","g","/",".","c","o","d","e","g","a","t","h","e","r","i","g","n","o","r","e">>,
       <<"/","p","/","m","i","s","s","i","n","g","/",".","c","o","d","e","g","a","t","h","e","r","_","s","e","s","s","i","o","n","_","p","r","o","m","p","t",".","t","x","t">>,
       <<"/","p","/","m","y","_","n","o","d","e","_","m","o","d","u","l","e","s">>,
       <<"/","p","/","m","y","_","n","o","d","e","_","m","o","d","u","l","e","s","/","f","i","l","e",".","j","s">>,
       <<"/","p","/","n","o","d","e","_","m","o","d","u","l","e","s">>,
       <<"/","p","/","n","o","d","e","_","m","o","d","u","l","e","s","/","p","k","g">>,
       <<"/","p","/","n","o","d","e","_","m","o","d","u","l","e","s","/","p","k","g","/","i","n","d","e","x",".","j","s">>,
       <<"/","p","/","n","o","d","e","_","m","o","d","u","l","e","s","/","s","u","b">>,
       <<"/","p","/","n","o","d","e","_","m","o","d","u","l","e","s","/","s","u","b","/","f","i","l","e",".","j","s">>,
       <<"/","p","/","o">>,
       <<"/","p","/","o","/","c",".","t","x","t">>,
       <<"/","p","/","o","u","t",".","j","s">>,
       <<"/","p","/","p","r","o","m","p","t",".","j","s">>,
       <<"/","p","/","s","r","c">>,
       <<"/","p","/","s","r","c","/","a","p","p",".","j","s">>,
       <<"/","p","/","s","r","c","/","a","p","p",".","t","e","s","t",".","j","s">>,
       <<"/","p","/","s","r","c","/","c","o","m","b","i","n","e","d","_","c","o","d","e",".","t","x","t">>,
       <<"/","p","/","s","r","c","/","o","u","t",".","j","s">>,
       <<"/","p","/","s","r","c","/","p","r","o","m","p","t",".","j","s">>,
       <<"/","p","/","t",".","t","m","p">>,
       <<"/","p","/","x",".","l","o","g">> >>

\* the directory many and one more source file in it than a run takes
\* without asking
ManyEntries ==
    << <<"/","p","/","m","a","n","y">> >>
    \o [i \in 1..(FILES_COUNT_WARNING_THRESHOLD + 1) |-> ManyFilePath(i)]

\* Every path a file system of this model can hold: the order in which
\* Path.rglob yields them.
WalkOrder == NamedEntries \o ManyEntries

\* root_path.rglob("*"): every entry below root, in walk order
rglob(files, root) ==
    SelectSeq(WalkOrder, LAMBDA p : p \in DOMAIN files /\ is_relative_to(p, root))

\* ------------------------------------------------------------------------
\* parse_config, on the file system

\* [raised, settings, include, exclude]: raised when open() fails on an
\* existing rule file
parse_config(files, config_file_path) ==
    IF is_file(files, config_file_path) /\ ~files[config_file_path].readable
    THEN [raised |-> TRUE, settings |-> EmptySettings, include |-> <<>>, exclude |-> <<>>]
    ELSE LET start == [settings |-> EmptySettings,
                       include_extension_patterns |-> <<>>,
                       exclude_patterns |-> <<>>]
             acc == IF is_file(files, config_file_path)
                    THEN ParseLines(start, files[config_file_path].content)
                    ELSE start
         IN  [raised   |-> FALSE,
              settings |-> acc.settings,
              include  |-> FinalIncludeExtensions(acc.include_extension_patterns,
                                                  acc.settings.default_extensions_str),
              exclude  |-> acc.exclude_patterns]

\* ------------------------------------------------------------------------
\* is_excluded

\* the directory test as a bare prefix test, without the '/' after the prefix
PatternExcludesByPrefix(relative_item_path_str_normalized, item_name, pattern_orig) ==
    LET p_stripped == strip(pattern_orig)
        p_normalized == replace(p_stripped, "\\", "/")
        is_dir_specific_pattern == endswith(p_normalized, <<"/">>)
        p_to_match == rstrip_slash(p_normalized)
    IN  IF p_stripped = <<>> THEN FALSE
        ELSE IF is_dir_specific_pattern \/ Contains(p_normalized, "/")
        THEN IF is_dir_specific_pattern
             THEN startswith(relative_item_path_str_normalized, p_to_match)
             ELSE fnmatchcase(relative_item_path_str_normalized, p_normalized)
        ELSE fnmatchcase(item_name, p_stripped)

\* one iteration of the loop over exclude_patterns: whether pattern_orig
\* excludes the entry with this root-relative path and base name
PatternExcludes(relative_item_path_str_normalized, item_name, pattern_orig) ==
    LET p_stripped == strip(pattern_orig)
        p_normalized == replace(p_stripped, "\\", "/")
        is_dir_specific_pattern == endswith(p_normalized, <<"/">>)
        p_to_match == rstrip_slash(p_normalized)
    IN  IF p_stripped = <<>> THEN FALSE
        ELSE IF is_dir_specific_pattern \/ Contains(p_normalized, "/")
        THEN IF is_dir_specific_pattern
             THEN \/ relative_item_path_str_normalized = p_to_match
                  \/ startswith(relative_item_path_str_normalized, p_to_match \o <<"/">>)
             ELSE fnmatchcase(relative_item_path_str_normalized, p_normalized)
        ELSE fnmatchcase(item_name, p_stripped)

\* is_excluded without its test for the output file
is_excluded_no_output_test(item_path_abs, root_path_abs, exclude_patterns, output_file_path_abs) ==
    IF ~is_relative_to(item_path_abs, root_path_abs) THEN TRUE
    ELSE LET relative_item_path_str_normalized ==
                 replace(relative_to(item_path_abs, root_path_abs), "\\", "/")
         IN  \E i \in 1..Len(exclude_patterns) :
                 PatternExcludes(relative_item_path_str_normalized,
                                 name(item_path_abs), exclude_patterns[i])

is_excluded(item_path_abs, root_path_abs, exclude_patterns, output_file_path_abs) ==
    IF item_path_abs = output_file_path_abs THEN TRUE
    ELSE IF ~is_relative_to(item_path_abs, root_path_abs) THEN TRUE
    ELSE LET relative_item_path_str_normalized ==
                 replace(relative_to(item_path_abs, root_path_abs), "\\", "/")
         IN  \E i \in 1..Len(exclude_patterns) :
                 PatternExcludes(relative_item_path_str_normalized,
                                 name(item_path_abs), exclude_patterns[i])

\* ------------------------------------------------------------------------
\* handle_run_command: the settings

\* final_output_path_str and output_source_log
OutputSetting(args_output, cfg_output_file) ==
    IF Truthy(args_output) THEN [str |-> Val(args_output), source |-> "cli"]
    ELSE IF Truthy(cfg_output_file)
    THEN [str |-> Val(cfg_output_file), source |-> "config_file"]
    ELSE [str |-> DEFAULT_OUTPUT_FILENAME, source |-> "script_default"]

\* final_output_path: a relative rule-file value is taken from the root,
\* every other value from the working directory
FinalOutputPath(wd, root_path, args_output, cfg_output_file) ==
    LET o == OutputSetting(args_output, cfg_output_file)
    IN  IF o.source = "config_file" /\ ~is_absolute(o.str)
        THEN join(root_path, o.str)
        ELSE resolve(wd, o.str)

\* --no-header as a store_true flag without default=None: the flag's False
\* shadows the rule file
FinalNoHeaderFlagShadows(args_no_header, cfg_no_header) ==
    IF ~IsNone(args_no_header) THEN Val(args_no_header) ELSE FALSE

\* final_no_header
FinalNoHeader(args_no_header, cfg_no_header) ==
    IF ~IsNone(args_no_header) THEN Val(args_no_header)
    ELSE IF ~IsNone(cfg_no_header) THEN Val(cfg_no_header)
    ELSE DEFAULT_NO_HEADER_STATE

\* session_prompt_source_log
SessionPromptSource(args_session_prompt_file_cli, cfg_session_prompt_file) ==
    IF Truthy(args_session_prompt_file_cli) THEN "cli"
    ELSE IF Truthy(cfg_session_prompt_file) THEN "config_file"
    ELSE "none"

\* final_session_prompt_path, None when no source names one
FinalSessionPromptPath(wd, root_path, args_session_prompt_file_cli, cfg_session_prompt_file) ==
    IF Truthy(args_session_prompt_file_cli)
    THEN Some(resolve(wd, Val(args_session_prompt_file_cli)))
    ELSE IF Truthy(cfg_session_prompt_file)
    THEN IF ~is_absolute(Val(cfg_session_prompt_file))
         THEN Some(join(root_path, Val(cfg_session_prompt_file)))
         ELSE Some(Val(cfg_session_prompt_file))
    ELSE None

\* use_session_prompt
UseSessionPrompt(args_no_session_prompt, final_session_prompt_path) ==
    ~args_no_session_prompt /\ ~IsNone(final_session_prompt_path)

\* the concatenation of a sequence of strings
RECURSIVE Flatten(_)
Flatten(pieces) ==
    IF pieces = <<>> THEN <<>> ELSE Head(pieces) \o Flatten(Tail(pieces))

\* session_prompt_content: the prompt file's text with the placeholder
\* replaced by the root's name, "" when it is not used, missing or unreadable
SessionPromptContent(files, root_path, use_session_prompt, final_session_prompt_path) ==
    IF use_session_prompt /\ ~IsNone(final_session_prompt_path)
       /\ is_file(files, Val(final_session_prompt_path))
       /\ files[Val(final_session_prompt_path)].readable
    THEN LET text == files[Val(final_session_prompt_path)].content
         IN  Flatten([i \in 1..Len(text) |->
                        IF text[i] = ROOT_NAME_PLACEHOLDER THEN name(root_path) ELSE text[i]])
    ELSE <<>>

\* ------------------------------------------------------------------------
\* handle_run_command: the scan

\* whether some include pattern matches the entry's base name
MatchedExtension(item_abs_path, final_include_extensions) ==
    \E i \in 1..Len(final_include_extensions) :
        fnmatchcase(name(item_abs_path), final_include_extensions[i])

\* the scan loop without its test for the session prompt file
ScanItemNoPromptTest(files, item_abs_path, root_path, final_include_extensions, final_exclude_patterns, final_output_path, final_session_prompt_path) ==
    IF is_excluded(item_abs_path, root_path, final_exclude_patterns, final_output_path)
    THEN "excluded"
    ELSE IF is_file(files, item_abs_path)
            /\ MatchedExtension(item_abs_path, final_include_extensions)
    THEN "selected"
    ELSE "other"

\* one iteration of the scan loop: "prompt" (the session prompt file,
\* skipped), "excluded", "other" (not a file, or no include pattern matches)
\* or "selected"
ScanItem(files, item_abs_path, root_path, final_include_extensions, final_exclude_patterns, final_output_path, final_session_prompt_path) ==
    IF ~IsNone(final_session_prompt_path) /\ item_abs_path = Val(final_session_prompt_path)
    THEN "prompt"
    ELSE IF is_excluded(item_abs_path, root_path, final_exclude_patterns, final_output_path)
    THEN "excluded"
    ELSE IF is_file(files, item_abs_path)
            /\ MatchedExtension(item_abs_path, final_include_extensions)
    THEN "selected"
    ELSE "other"

\* files_to_process: the selected entries in walk order
Scan(files, root_path, final_include_extensions, final_exclude_patterns, final_output_path, final_session_prompt_path) ==
    SelectSeq(rglob(files, root_path),
              LAMBDA item : ScanItem(files, item, root_path, final_include_extensions,
                                     final_exclude_patterns, final_output_path,
                                     final_session_prompt_path) = "selected")

\* ------------------------------------------------------------------------
\* handle_run_command: the output

\* str(list) of a list of strings
RECURSIVE JoinQuoted(_)
JoinQuoted(strs) ==
    IF strs = <<>> THEN <<>>
    ELSE <<"'">> \o Head(strs) \o <<"'">>
         \o (IF Len(strs) > 1 THEN <<",", " ">> ELSE <<>>) \o JoinQuoted(Tail(strs))

ListRepr(strs) == <<"[">> \o JoinQuoted(strs) \o <<"]">>

\* what is written when no file was selected
EmptyResultWrites(root_path, session_prompt_content, final_no_header, final_include_extensions, final_exclude_patterns) ==
    IF session_prompt_content = <<>> /\ ~final_no_header
    THEN << <<"#"," ","N","o"," ","c","o","d","e"," ","f","i","l","e","s"," ","f","o","u","n","d"," ","m","a","t","c","h","i","n","g"," ","c","r","i","t","e","r","i","a"," ","i","n"," ","'">> \o root_path \o <<"'","\n">>,
            <<"#"," ","I","n","c","l","u","d","e"," ","E","x","t","e","n","s","i","o","n","s",":"," ">> \o ListRepr(final_include_extensions) \o <<"\n">>,
            <<"#"," ","E","x","c","l","u","d","e"," ","P","a","t","t","e","r","n","s",":"," ">> \o ListRepr(final_exclude_patterns) \o <<"\n">> >>
    ELSE IF session_prompt_content # <<>> /\ ~final_no_header
    THEN << <<"\n","#"," ","N","o"," ","c","o","d","e"," ","f","i","l","e","s"," ","f","o","u","n","d"," ","m","a","t","c","h","i","n","g"," ","c","r","i","t","e","r","i","a"," ","i","n"," ","'">> \o root_path
            \o <<"'"," ","(","a","f","t","e","r"," ","s","e","s","s","i","o","n"," ","p","r","o","m","p","t",")","\n">> >>
    ELSE <<>>

\* the text of the exception open() raises on an unreadable file
ReadError(file_path_abs) ==
    <<"[","E","r","r","n","o"," ","1","3","]"," ","P","e","r","m","i","s","s","i","o","n"," ","d","e","n","i","e","d",":"," ","'">> \o file_path_abs \o <<"'">>

\* what is written for the i-th of the selected files
FileWrites(files, root_path, files_to_process, i, final_no_header) ==
    LET file_path_abs == files_to_process[i]
        relative_file_path == relative_to(file_path_abs, root_path)
        error_message == <<"[","E","r","r","o","r"," ","r","e","a","d","i","n","g"," ","f","i","l","e"," ">> \o relative_file_path \o <<":", " ">>
                         \o ReadError(file_path_abs) \o <<"]">>
    IN  (IF ~final_no_header
         THEN << <<"-","-","-"," ","S","T","A","R","T"," ","F","I","L","E",":"," ">> \o relative_file_path \o <<" ","-","-","-","\n">> >>
         ELSE <<>>)
        \o (IF files[file_path_abs].readable
            THEN << Flatten(files[file_path_abs].content) >>
            ELSE IF ~final_no_header
            THEN << error_message \o <<"\n">> >>
            ELSE << <<"\n","\n","'","'","'">> \o error_message \o <<"'","'","'","\n","\n">> >>)
        \o (IF ~final_no_header
            THEN << <<"\n","-","-","-"," ","E","N","D"," ","F","I","L","E",":"," ">> \o relative_file_path \o <<" ","-","-","-">> >>
            ELSE <<>>)
        \o (IF i < Len(files_to_process) THEN << <<"\n", "\n">> >>
            ELSE IF ~final_no_header THEN << <<"\n">> >>
            ELSE <<>>)

\* the write loop ended by the first read failure: nothing is written for
\* the failing file or the files after it
RECURSIVE AllFileWritesUntilFailure(_, _, _, _, _, _)
AllFileWritesUntilFailure(files, root_path, files_to_process, first, last, final_no_header) ==
    IF first > last THEN <<>>
    ELSE IF first = last
    THEN IF \E j \in 1..first : ~files[files_to_process[j]].readable THEN <<>>
         ELSE FileWrites(files, root_path, files_to_process, first, final_no_header)
    ELSE LET half == (first + last) \div 2
         IN  AllFileWritesUntilFailure(files, root_path, files_to_process, first, half,
                                       final_no_header)
             \o AllFileWritesUntilFailure(files, root_path, files_to_process, half + 1,
                                          last, final_no_header)

\* what the loop writes for the selected files first..last, in order (the
\* range is halved, the writes of the first half before those of the second)
RECURSIVE AllFileWrites(_, _, _, _, _, _)
AllFileWrites(files, root_path, files_to_process, first, last, final_no_header) ==
    IF first > last THEN <<>>
    ELSE IF first = last
    THEN FileWrites(files, root_path, files_to_process, first, final_no_header)
    ELSE LET half == (first + last) \div 2
         IN  AllFileWrites(files, root_path, files_to_process, first, half, final_no_header)
             \o AllFileWrites(files, root_path, files_to_process, half + 1, last,
                              final_no_header)

\* every string written to the output file, in order
OutputWrites(files, root_path, files_to_process, session_prompt_content, final_no_header, final_include_extensions, final_exclude_patterns) ==
    (IF session_prompt_content # <<>>
     THEN <<session_prompt_content, SESSION_PROMPT_CODE_SEPARATOR>>
     ELSE <<>>)
    \o (IF files_to_process = <<>>
        THEN EmptyResultWrites(root_path, session_prompt_content, final_no_header,
                               final_include_extensions, final_exclude_patterns)
        ELSE AllFileWrites(files, root_path, files_to_process, 1, Len(files_to_process),
                           final_no_header))

\* ------------------------------------------------------------------------
\* handle_run_command

\* the values a run that returns early leaves unset
NoRun ==
    [outcome |-> "none",
     loaded_cfg_settings |-> EmptySettings,
     final_include_extensions |-> <<>>,
     final_exclude_patterns |-> <<>>,
     output_source_log |-> "script_default",
     final_output_path_str |-> None,
     final_output_path |-> None,
     final_no_header |-> DEFAULT_NO_HEADER_STATE,
     session_prompt_source_log |-> "none",
     final_session_prompt_path |-> None,
     use_session_prompt |-> FALSE,
     files_to_process |-> <<>>,
     confirm_asked |-> FALSE]

\* config_file_path
ConfigFilePath(wd, root_path, args_config) ==
    IF Truthy(args_config) THEN resolve(wd, Val(args_config))
    ELSE join(root_path, DEFAULT_CONFIG_FILENAME)

\* input() raising instead of returning an answer
EOFError == <<"EOFError">>

\* the run from the scan on with the output file opened before the prompt:
\* a declined run leaves it truncated
RunScanAndWriteOpensFirst(files, root_path, r, session_prompt_content, confirm_large_run) ==
    LET files_to_process ==
            Scan(files, root_path, r.final_include_extensions, r.final_exclude_patterns,
                 Val(r.final_output_path), r.final_session_prompt_path)
        scanned == [r EXCEPT
                      !.files_to_process = files_to_process,
                      !.confirm_asked =
                          Len(files_to_process) > FILES_COUNT_WARNING_THRESHOLD]
    IN  IF open_w_raises(files, Val(r.final_output_path))
        THEN [run |-> [scanned EXCEPT !.outcome = "write_error"], files |-> files]
        ELSE IF Len(files_to_process) > FILES_COUNT_WARNING_THRESHOLD
                /\ (confirm_large_run = EOFError \/ lower(confirm_large_run) # <<"y">>)
        THEN [run |-> [scanned EXCEPT !.outcome = "aborted"],
              files |-> write_file(files, Val(r.final_output_path), <<>>)]
        ELSE [run |-> [scanned EXCEPT !.outcome =
                          IF files_to_process = <<>> THEN "written_empty" ELSE "written"],
              files |-> write_file(files, Val(r.final_output_path),
                           OutputWrites(files, root_path, files_to_process,
                                        session_prompt_content, r.final_no_header,
                                        r.final_include_extensions,
                                        r.final_exclude_patterns))]

\* The run from the scan on, in the file system left by mkdir: the record of
\* the run and the file system after it.
RunScanAndWrite(files, root_path, r, session_prompt_content, confirm_large_run) ==
    LET files_to_process ==
            Scan(files, root_path, r.final_include_extensions, r.final_exclude_patterns,
                 Val(r.final_output_path), r.final_session_prompt_path)
        scanned == [r EXCEPT
                      !.files_to_process = files_to_process,
                      !.confirm_asked =
                          Len(files_to_process) > FILES_COUNT_WARNING_THRESHOLD]
    IN  IF Len(files_to_process) > FILES_COUNT_WARNING_THRESHOLD
           /\ (confirm_large_run = EOFError \/ lower(confirm_large_run) # <<"y">>)
        THEN [run |-> [scanned EXCEPT !.outcome = "aborted"], files |-> files]
        ELSE IF open_w_raises(files, Val(r.final_output_path))
        THEN [run |-> [scanned EXCEPT !.outcome = "write_error"], files |-> files]
        ELSE [run |-> [scanned EXCEPT !.outcome =
                          IF files_to_process = <<>> THEN "written_empty" ELSE "written"],
              files |-> write_file(files, Val(r.final_output_path),
                           OutputWrites(files, root_path, files_to_process,
                                        session_prompt_content, r.final_no_header,
                                        r.final_include_extensions,
                                        r.final_exclude_patterns))]

\* The run from the parsed rule file on.
RunWithConfig(files, wd, root_path, a, cfg, confirm_large_run) ==
    LET final_session_prompt_path ==
            FinalSessionPromptPath(wd, root_path, a.session_prompt_file_cli,
                                   cfg.settings.session_prompt_file)
        r == [NoRun EXCEPT
                !.loaded_cfg_settings = cfg.settings,
                !.final_include_extensions = cfg.include,
                !.final_exclude_patterns = cfg.exclude,
                !.output_source_log =
                    OutputSetting(a.output, cfg.settings.output_file).source,
                !.final_output_path_str =
                    Some(OutputSetting(a.output, cfg.settings.output_file).str),
                !.session_prompt_source_log =
                    SessionPromptSource(a.session_prompt_file_cli,
                                        cfg.settings.session_prompt_file),
                !.final_output_path =
                    Some(FinalOutputPath(wd, root_path, a.output, cfg.settings.output_file)),
                !.final_no_header = FinalNoHeader(a.no_header, cfg.settings.no_header),
                !.final_session_prompt_path = final_session_prompt_path,
                !.use_session_prompt =
                    UseSessionPrompt(a.no_session_prompt, final_session_prompt_path)]
        session_prompt_content ==
            SessionPromptContent(files, root_path, r.use_session_prompt,
                                 r.final_session_prompt_path)
    IN  IF mkdir_raises(files, parent(Val(r.final_output_path)))
        THEN [run |-> [r EXCEPT !.outcome = "mkdir_error"], files |-> files]
        ELSE RunScanAndWrite(mkdir(files, parent(Val(r.final_output_path))), root_path, r,
                             session_prompt_content, confirm_large_run)

\* handle_run_command(args) as main calls it: the record of the run and the
\* file system after it.  An exception of parse_config is caught by main.
RunCommand(files, wd, a, confirm_large_run) ==
    LET root_path == resolve(wd, a.root_dir)
    IN  IF root_path \notin DOMAIN files
        THEN [run |-> [NoRun EXCEPT !.outcome = "root_not_found"], files |-> files]
        ELSE IF ~is_dir(files, root_path)
        THEN [run |-> [NoRun EXCEPT !.outcome = "root_not_dir"], files |-> files]
        ELSE LET cfg == parse_config(files, ConfigFilePath(wd, root_path, a.config))
             IN  IF cfg.raised
                 THEN [run |-> [NoRun EXCEPT !.outcome = "exception"], files |-> files]
                 ELSE RunWithConfig(files, wd, root_path, a, cfg, confirm_large_run)

\* ------------------------------------------------------------------------
\* handle_init_command

\* the file system after the two templates are handled in turn: a file that
\* exists is overwritten only with --force or the answer 'y'
InitWriteOne(files, file_path, template_content, force, override) ==
    IF file_path \in DOMAIN files /\ ~force /\ lower(override) # <<"y">> THEN files
    ELSE IF open_w_raises(files, file_path) THEN files
    ELSE write_file(files, file_path, template_content)

InitCommand(files, wd, root_dir, force, override1, override2) ==
    LET init_root_path == resolve(wd, root_dir)
    IN  IF mkdir_raises(files, init_root_path) THEN files
        ELSE InitWriteOne(
                 InitWriteOne(mkdir(files, init_root_path),
                              join(init_root_path, DEFAULT_CONFIG_FILENAME),
                              DEFAULT_CONFIG_TEMPLATE, force, override1),
                 join(init_root_path, DEFAULT_INIT_SESSION_PROMPT_FILENAME),
                 DEFAULT_SESSION_PROMPT_TEMPLATE, force, override2)

\* ------------------------------------------------------------------------
\* State

VARIABLES
    fs,         \* the file system: absolute path -> [kind, readable, content]
    cwd,        \* the working directory of the commands
    args,       \* the arguments of `run`
    run,        \* the locals of the last handle_run_command, NoRun before it
    last_cmd,   \* "none", "init" or "run": the last command
    runs,       \* the number of runs so far
    probe       \* the last direct call of is_excluded and its result

vars == <<fs, cwd, args, run, last_cmd, runs, probe>>

NoProbe ==
    [called |-> FALSE, item_path_abs |-> <<>>, exclude_patterns |-> <<>>,
     output_file_path_abs |-> <<>>, result |-> FALSE]

\* what the user may type at a prompt
Answers == {<<"Y">>, <<"n">>}

MaxRuns == 2

\* `init` with or without --force; the user answers each override prompt
handle_init_command ==
    /\ \E force \in BOOLEAN, override1 \in Answers, override2 \in Answers :
          fs' = InitCommand(fs, cwd, args.root_dir, force, override1, override2)
    /\ last_cmd' = "init"
    /\ UNCHANGED <<cwd, args, run, runs, probe>>

\* what input() may do at the large-run prompt, which is asked only of a
\* project with more than FILES_COUNT_WARNING_THRESHOLD entries
ConfirmAnswers(files) ==
    IF Cardinality(DOMAIN files) > FILES_COUNT_WARNING_THRESHOLD
    THEN Answers \cup {EOFError} ELSE {<<>>}

\* `run` with the arguments args
handle_run_command ==
    /\ runs < MaxRuns
    /\ \E confirm_large_run \in ConfirmAnswers(fs) :
          \E res \in {RunCommand(fs, cwd, args, confirm_large_run)} :
              /\ fs' = res.files
              /\ run' = res.run
    /\ last_cmd' = "run"
    /\ runs' = runs + 1
    /\ UNCHANGED <<cwd, args, probe>>

Next == handle_init_command \/ handle_run_command

\* ------------------------------------------------------------------------
\* Inputs: projects, rule files and command lines

Root == <<"/","p">>

\* the text of the source file at a path
SourceText(path) == << <<"/","/"," ">> \o name(path) \o <<"\n">> >>

\* a project: the regular files at these paths, and the directories above them
Project(paths) ==
    LET dirs == {Root} \cup UNION {Ancestors(parent(p)) : p \in paths}
    IN  [p \in paths \cup dirs |-> IF p \in paths THEN File(SourceText(p)) ELSE Dir]

\* files with (rule file lines, or None for no rule file)
WithRuleFile(files, lines) ==
    IF IsNone(lines) THEN files
    ELSE write_file(files, join(Root, DEFAULT_CONFIG_FILENAME), Val(lines))

\* files with a rule file that open() cannot read
WithUnreadableRuleFile(files) ==
    [p \in DOMAIN files \cup {join(Root, DEFAULT_CONFIG_FILENAME)} |->
        IF p = join(Root, DEFAULT_CONFIG_FILENAME)
        THEN Unreadable(<< <<"*",".","j","s">> >>) ELSE files[p]]

SmallProject ==
    Project({ <<"/","p","/","s","r","c","/","a","p","p",".","j","s">>, <<"/","p","/","s","r","c","/","a","p","p",".","t","e","s","t",".","j","s">>,
              <<"/","p","/","n","o","d","e","_","m","o","d","u","l","e","s","/","p","k","g","/","i","n","d","e","x",".","j","s">> })

LargeProject ==
    Project({ <<"/","p","/","a","/","b","/","c","/","o","u","t",".","l","o","g">>, <<"/","p","/","a","/","x",".","l","o","g">>, <<"/","p","/","b","/","o","u","t",".","l","o","g">>,
              <<"/","p","/","b","u","i","l","d","/","x",".","j","s">>, <<"/","p","/","m","a","i","n",".","j","s">>, <<"/","p","/","m","y","_","n","o","d","e","_","m","o","d","u","l","e","s","/","f","i","l","e",".","j","s">>,
              <<"/","p","/","n","o","d","e","_","m","o","d","u","l","e","s","/","p","k","g","/","i","n","d","e","x",".","j","s">>, <<"/","p","/","n","o","d","e","_","m","o","d","u","l","e","s","/","s","u","b","/","f","i","l","e",".","j","s">>,
              <<"/","p","/","p","r","o","m","p","t",".","j","s">>, <<"/","p","/","s","r","c","/","a","p","p",".","j","s">>, <<"/","p","/","s","r","c","/","a","p","p",".","t","e","s","t",".","j","s">>,
              <<"/","p","/","s","r","c","/","p","r","o","m","p","t",".","j","s">>, <<"/","p","/","t",".","t","m","p">>, <<"/","p","/","x",".","l","o","g">> })

\* a project with n source files in one directory
ManyProject(n) == Project({ManyFilePath(i) : i \in 1..n})

\* files with the output file an earlier run left at the default path
WithEarlierOutput(files) ==
    write_file(files, join(Root, DEFAULT_OUTPUT_FILENAME), << <<"e","a","r","l","i","e","r"," ","o","u","t","p","u","t","\n">> >>)

\* files with open() failing on the regular files at these paths
WithUnreadable(files, paths) ==
    [p \in DOMAIN files |->
        IF p \in paths /\ files[p].kind = "file" THEN Unreadable(files[p].content)
        ELSE files[p]]

\* the source files that cannot be read: one in the middle of the selection;
\* the last of it; the first of it and the session prompt file
UnreadableSources ==
    { { <<"/","p","/","m","a","i","n",".","j","s">> },
      { <<"/","p","/","s","r","c","/","a","p","p",".","j","s">>, <<"/","p","/","s","r","c","/","p","r","o","m","p","t",".","j","s">> },
      { <<"/","p","/","b","u","i","l","d","/","x",".","j","s">>, <<"/","p","/","s","r","c","/","a","p","p",".","t","e","s","t",".","j","s">>, <<"/","p","/","p","r","o","m","p","t",".","j","s">> } }

\* run from the root, or from src with the root named
Invocations ==
    { [cwd |-> Root, root_dir |-> <<".">>],
      [cwd |-> <<"/","p","/","s","r","c">>, root_dir |-> Root] }

DefaultArgs(root_dir) ==
    [root_dir |-> root_dir, output |-> None, config |-> None, no_header |-> None,
     session_prompt_file_cli |-> None, no_session_prompt |-> FALSE]

\* every command line of `run` over these values; --no-header is a
\* store_true flag with default None
AllArgs(root_dir) ==
    [root_dir : {root_dir},
     output : {None, Some(<<>>), Some(<<"o","u","t",".","j","s">>), Some(<<"o","/","c",".","t","x","t">>)},
     config : {None},
     no_header : {None, Some(TRUE)},
     session_prompt_file_cli : {None, Some(<<"s","r","c","/","p","r","o","m","p","t",".","j","s">>)},
     no_session_prompt : BOOLEAN]

\* command lines whose root does not exist or is a file, or whose output
\* file lies below a file
FailingArgs ==
    { DefaultArgs(<<"m","i","s","s","i","n","g">>), DefaultArgs(<<"m","a","i","n",".","j","s">>),
      [DefaultArgs(<<".">>) EXCEPT !.output = Some(<<"m","a","i","n",".","j","s","/","c",".","t","x","t">>)] }

\* rule files that set each setting, or not, above a list of patterns
SettingsRuleFiles ==
    { o \o h \o s \o << <<"#"," ","r","u","l","e","s">>, <<"*",".","j","s">>, <<"n","o","d","e","_","m","o","d","u","l","e","s","/">>, <<"b","u","i","l","d">> >> :
        o \in { <<>>, << <<"o","u","t","p","u","t","_","f","i","l","e",":">> >>, << <<"o","u","t","p","u","t","_","f","i","l","e",":"," ","o","u","t",".","j","s">> >> },
        h \in { <<>>, << <<"N","o","-","H","e","a","d","e","r",":"," ","Y","e","s"," "," ","#"," ","n","o"," ","m","a","r","k","e","r","s">> >>, << <<"n","o","_","h","e","a","d","e","r",":"," ","f","a","l","s","e">> >> },
        s \in { <<>>, << <<"s","e","s","s","i","o","n","_","p","r","o","m","p","t","_","f","i","l","e",":"," ","p","r","o","m","p","t",".","j","s">> >> } }

EndToEndRuleFile == << <<"*",".","j","s">>, <<"*",".","t","e","s","t",".","j","s">>, <<"n","o","d","e","_","m","o","d","u","l","e","s","/">> >>

\* rule files with exclude patterns of each kind
GlobRuleFiles ==
    { << <<"*",".","j","s">>, <<"*",".","l","o","g">>, <<"a","/","*",".","l","o","g">>, <<"s","r","c","/","a","p","p",".","t","e","s","t",".","j","s">>, <<"p","r","o","m","p","t",".","*">> >>,
      << <<"d","e","f","a","u","l","t","_","e","x","t","e","n","s","i","o","n","s",":"," ","j","s",","," ","l","o","g",","," ","t","m","p">>, <<"*","/">>, <<"a","/","b","/">>, <<"?",".","l","o","g">>, <<"o","u","t",".","j","s">>,
         <<"s","r","c","\\","a","p","p",".","j","s">> >>,
      << <<"*",".","*">>, <<"b","u","i","l","d">>, <<"n","o","d","e","_","m","o","d","u","l","e","s","/","s","u","b","/">>, <<"m","a","i","n","*">> >> }

InitStateWith(files, invocation, a, pr) ==
    /\ fs = files
    /\ cwd = invocation.cwd
    /\ args = a
    /\ run = NoRun
    /\ last_cmd = "none"
    /\ runs = 0
    /\ probe = pr

InitState(files, invocation, a) == InitStateWith(files, invocation, a, NoProbe)

\* Every command line against every settings rule file in the large project;
\* the default command line against the named rule files, a missing and
\* an unreadable rule file, in both projects; the failing command lines; the
\* large project with source files that cannot be read, with and without
\* headers and a session prompt; and
\* the default command line in the projects with as many source files as a
\* run takes without asking, and one more.
Init ==
    \E invocation \in Invocations :
        \/ \E lines \in SettingsRuleFiles, a \in AllArgs(invocation.root_dir) :
               InitState(WithRuleFile(LargeProject, Some(lines)), invocation, a)
        \/ \E project \in {SmallProject, LargeProject},
              lines \in {None, Some(EndToEndRuleFile), Some(DEFAULT_CONFIG_TEMPLATE)}
                        \cup {Some(l) : l \in GlobRuleFiles},
              no_session_prompt \in BOOLEAN :
               InitState(WithRuleFile(project, lines), invocation,
                         [DefaultArgs(invocation.root_dir) EXCEPT
                             !.no_session_prompt = no_session_prompt])
        \/ \E project \in {SmallProject, LargeProject} :
               InitState(WithUnreadableRuleFile(project), invocation,
                         DefaultArgs(invocation.root_dir))
        \/ \E a \in FailingArgs, files \in {LargeProject, WithEarlierOutput(LargeProject)} :
               /\ invocation.cwd = Root
               /\ InitState(files, invocation, a)
        \/ \E unreadable \in UnreadableSources, no_header \in {None, Some(TRUE)},
              session_prompt_file_cli \in {None, Some(<<"p","r","o","m","p","t",".","j","s">>)} :
               /\ invocation.cwd = Root
               /\ InitState(WithUnreadable(WithRuleFile(LargeProject,
                                              Some(<< <<"*",".","j","s">>, <<"n","o","d","e","_","m","o","d","u","l","e","s","/">> >>)),
                                          unreadable),
                            invocation,
                            [DefaultArgs(invocation.root_dir) EXCEPT
                                !.no_header = no_header,
                                !.session_prompt_file_cli = session_prompt_file_cli])
        \/ \E n \in {FILES_COUNT_WARNING_THRESHOLD, FILES_COUNT_WARNING_THRESHOLD + 1} :
               \E files \in {ManyProject(n), WithEarlierOutput(ManyProject(n))} :
                   /\ invocation.cwd = Root
                   /\ InitState(files, invocation, DefaultArgs(invocation.root_dir))

Spec == Init /\ [][Next]_vars

\* is_excluded called, once, with the arguments of the probe
call_is_excluded ==
    /\ ~probe.called
    /\ probe' = [probe EXCEPT
                    !.called = TRUE,
                    !.result = is_excluded(probe.item_path_abs, Root,
                                           probe.exclude_patterns,
                                           probe.output_file_path_abs)]
    /\ UNCHANGED <<fs, cwd, args, run, last_cmd, runs>>

MaxPatternSegments == 2

PatternSegments ==
    { <<"a">>, <<"b">>, <<"*">>, <<"*",".","l","o","g">>, <<"o","u","t",".","l","o","g">>, <<"n","o","d","e","_","m","o","d","u","l","e","s">> }

\* the patterns of 1..n segments joined by '/'
RECURSIVE SegmentPaths(_)
SegmentPaths(n) ==
    IF n = 1 THEN PatternSegments
    ELSE SegmentPaths(n - 1)
         \cup {join(p, seg) : p \in SegmentPaths(n - 1), seg \in PatternSegments}

\* each of them as it is, as a directory marker, and with two trailing '/'
MatchPatterns ==
    {p \o tail : p \in SegmentPaths(MaxPatternSegments), tail \in {<<>>, <<"/">>, <<"/", "/">>}}

\* every entry a project with few entries can hold
Entries == {NamedEntries[i] : i \in 1..Len(NamedEntries)}

\* is_excluded about to be called on an entry with one exclude pattern
InitMatch ==
    \E item \in Entries, pattern \in MatchPatterns :
        InitStateWith(LargeProject, [cwd |-> Root, root_dir |-> <<".">>],
                      DefaultArgs(<<".">>),
                      [NoProbe EXCEPT
                          !.item_path_abs = item,
                          !.exclude_patterns = <<pattern>>,
                          !.output_file_path_abs = join(Root, DEFAULT_OUTPUT_FILENAME)])

NextMatch == call_is_excluded

\* Direct calls of is_excluded on every entry and every pattern.
SpecMatch == InitMatch /\ [][NextMatch]_vars

\* every string over alphabet of length 1..n
Strings(alphabet, n) == UNION {[1..k -> alphabet] : k \in 1..n}

MaxExtensionsLen == 4

ExtensionsAlphabet == {"p", ".", "*", ",", " "}

\* Rule files with a default_extensions line over ExtensionsAlphabet (or the
\* line `default_extensions:py, .ts, *.md`, or a value that is only a
\* comment), alone or after an explicit include line; and rule files
\* without such a line.
InitExtensions ==
    \E lines \in
          { before \o << <<"d","e","f","a","u","l","t","_","e","x","t","e","n","s","i","o","n","s",":">> \o value >> :
              value \in Strings(ExtensionsAlphabet, MaxExtensionsLen)
                           \cup { <<"p","y",","," ",".","t","s",","," ","*",".","m","d">>, <<" ","#"," ","n","o","n","e">> },
              before \in { <<>>, << <<"*",".","t","s">> >> } }
          \cup { <<>>, << <<"#"," ","d","e","f","a","u","l","t","_","e","x","t","e","n","s","i","o","n","s",":"," ","p","y">> >>, << <<"n","o","d","e","_","m","o","d","u","l","e","s","/">> >>,
                 << <<"d","e","f","a","u","l","t","_","e","x","t","e","n","s","i","o","n","s",":"," ","p","y">>, <<"*",".","m","d">>, <<"*",".","t","s">> >> } :
        InitState(WithRuleFile(SmallProject, Some(lines)),
                  [cwd |-> Root, root_dir |-> <<".">>], DefaultArgs(<<".">>))

SpecExtensions == InitExtensions /\ [][Next]_vars

MaxLineLen == 3

LineAlphabet == {"*", ".", "a", "/", "\\", "-", " ", "#", ":"}

\* Every rule file of one line over LineAlphabet, in the small project.
InitLines ==
    \E line \in Strings(LineAlphabet, MaxLineLen) :
        InitState(WithRuleFile(SmallProject, Some(<<line>>)),
                  [cwd |-> Root, root_dir |-> <<".">>], DefaultArgs(<<".">>))

SpecLines == InitLines /\ [][Next]_vars

\* the root of the runs
RootPath == resolve(cwd, args.root_dir)

\* the last command was a run that got as far as merging the settings
Merged == last_cmd = "run" /\ ~IsNone(run.final_output_path)

\* the last command was a run that scanned the project
Scanned == last_cmd = "run" /\ run.outcome \in {"written", "written_empty", "write_error", "aborted"}

\* ------------------------------------------------------------------------
\* C1: every setting resolves by the same precedence

\* a str value was supplied: present and not empty
Supplied(o) == o # None /\ o[1] # <<>>

\* C1: after the settings are merged, the output path is the CLI value if
\* supplied, else the rule-file value if supplied, else combined_code.txt;
\* the header flag is the CLI flag if given, else the rule-file value if
\* given, else headers enabled; the session prompt path comes from the CLI
\* if supplied, else from the rule file if supplied, else there is none.
C1_Precedence ==
    Merged =>
        LET cfg == run.loaded_cfg_settings
        IN  /\ run.final_output_path_str =
                   Some(IF Supplied(args.output) THEN Val(args.output)
                        ELSE IF Supplied(cfg.output_file) THEN Val(cfg.output_file)
                        ELSE <<"c","o","m","b","i","n","e","d","_","c","o","d","e",".","t","x","t">>)
            /\ run.final_no_header =
                   (IF args.no_header # None THEN Val(args.no_header)
                    ELSE IF cfg.no_header # None THEN Val(cfg.no_header)
                    ELSE FALSE)
            /\ run.final_session_prompt_path =
                   (IF Supplied(args.session_prompt_file_cli)
                    THEN Some(resolve(cwd, Val(args.session_prompt_file_cli)))
                    ELSE IF Supplied(cfg.session_prompt_file)
                    THEN Some(join(RootPath, Val(cfg.session_prompt_file)))
                    ELSE None)

\* a run in which no CLI flag is supplied and the rule file sets all three
C1_Witness ==
    /\ Merged
    /\ args.output = None /\ args.no_header = None /\ args.session_prompt_file_cli = None
    /\ run.loaded_cfg_settings.output_file = Some(<<"o","u","t",".","j","s">>)
    /\ run.loaded_cfg_settings.no_header = Some(TRUE)
    /\ run.loaded_cfg_settings.session_prompt_file = Some(<<"p","r","o","m","p","t",".","j","s">>)
    /\ run.final_output_path_str = Some(<<"o","u","t",".","j","s">>)
    /\ run.final_no_header = TRUE
    /\ run.final_session_prompt_path = Some(<<"/","p","/","p","r","o","m","p","t",".","j","s">>)

\* ------------------------------------------------------------------------
\* C2: the classification of pattern lines

\* the rule file the last run read
RuleFileLines ==
    IF is_file(fs, ConfigFilePath(cwd, RootPath, args.config))
    THEN fs[ConfigFilePath(cwd, RootPath, args.config)].content
    ELSE <<>>

\* the pattern lines of the rule file, stripped: not blank, no comment, no ':'
PatternLines ==
    SelectSeq([i \in 1..Len(RuleFileLines) |-> strip(RuleFileLines[i])],
              LAMBDA l : l # <<>> /\ l[1] # "#" /\ \A i \in 1..Len(l) : l[i] # ":")

\* `*.<ext>` with no path separator and a non-empty <ext> of alphanumeric
\* characters and '.'
IsExtensionPattern(l) ==
    /\ Len(l) >= 3 /\ l[1] = "*" /\ l[2] = "."
    /\ \A i \in 1..Len(l) : l[i] \notin {"/", "\\"}
    /\ \A i \in 3..Len(l) : l[i] \in Letters \cup Digits \cup {"."}

ExtensionPatternLines == SelectSeq(PatternLines, IsExtensionPattern)

OtherPatternLines == SelectSeq(PatternLines, LAMBDA l : ~IsExtensionPattern(l))

InSeq(x, seq) == \E i \in 1..Len(seq) : seq[i] = x

ProjectIs(project) ==
    /\ \A p \in DOMAIN project : p \in DOMAIN fs /\ fs[p].kind = project[p].kind
    /\ \A p \in DOMAIN fs :
           \/ p \in DOMAIN project
           \/ p = join(Root, DEFAULT_CONFIG_FILENAME)
           \/ p = join(Root, DEFAULT_INIT_SESSION_PROMPT_FILENAME)
           \/ Some(p) = run.final_output_path

\* the content of the output file the last run wrote
Output == fs[Val(run.final_output_path)].content

\* C3: with the rule file `*.js`, `*.test.js`, `node_modules/` in the project
\* of src/app.js, src/app.test.js and node_modules/pkg/index.js, a run
\* selects exactly src/app.js and writes its start marker, its content and
\* its end marker, and nothing else.
C3_EndToEnd ==
    (/\ last_cmd = "run" /\ run.outcome = "written"
     /\ RuleFileLines = EndToEndRuleFile
     /\ ProjectIs(SmallProject)
     /\ args = DefaultArgs(args.root_dir))
    => /\ run.files_to_process = << <<"/","p","/","s","r","c","/","a","p","p",".","j","s">> >>
       /\ Output = << <<"-","-","-"," ","S","T","A","R","T"," ","F","I","L","E",":"," ","s","r","c","/","a","p","p",".","j","s"," ","-","-","-","\n">>,
                      <<"/","/"," ","a","p","p",".","j","s","\n">>,
                      <<"\n","-","-","-"," ","E","N","D"," ","F","I","L","E",":"," ","s","r","c","/","a","p","p",".","j","s"," ","-","-","-">>,
                      <<"\n">> >>

\* ------------------------------------------------------------------------
\* C4: the rule file written by `init`

\* the patterns the template lists under 'Files and Directories to Exclude'
TemplateExcludes ==
    << <<"n","o","d","e","_","m","o","d","u","l","e","s","/">>, <<".","g","i","t","/">>, <<"d","i","s","t","/">>, <<"b","u","i","l","d","/">>, <<"v","e","n","v","/">>,
       <<"_","_","p","y","c","a","c","h","e","_","_","/">>, <<"*",".","l","o","g">>, <<"*",".","t","m","p">>, <<".","D","S","_","S","t","o","r","e">> >>

\* C4: with the template as the rule file, the include set is *.js, *.jsx,
\* every pattern of the template's exclude section is an exclude pattern,
\* and no file named *.log or *.tmp is selected.
C4_TemplateSections ==
    (Scanned /\ RuleFileLines = DEFAULT_CONFIG_TEMPLATE)
    => /\ run.final_include_extensions = << <<"*",".","j","s">>, <<"*",".","j","s","x">> >>
       /\ \A i \in 1..Len(TemplateExcludes) :
              InSeq(TemplateExcludes[i], run.final_exclude_patterns)
       /\ \A i \in 1..Len(run.files_to_process) :
              /\ ~endswith(run.files_to_process[i], <<".","l","o","g">>)
              /\ ~endswith(run.files_to_process[i], <<".","t","m","p">>)

\* ------------------------------------------------------------------------
\* C5: directory markers

ProbePattern == probe.exclude_patterns[1]

ProbePath == relative_to(probe.item_path_abs, Root)

\* a string without the '/' it ends in
RECURSIVE WithoutTrailingSeparators(_)
WithoutTrailingSeparators(p) ==
    IF Len(p) > 0 /\ p[Len(p)] = "/"
    THEN WithoutTrailingSeparators([i \in 1..(Len(p) - 1) |-> p[i]])
    ELSE p

\* path is prefix, or prefix followed by '/' and more
IsAtOrBelow(path, prefix) ==
    \/ path = prefix
    \/ /\ Len(path) > Len(prefix) + 1
       /\ \A i \in 1..Len(prefix) : path[i] = prefix[i]
       /\ path[Len(prefix) + 1] = "/"

\* C5: for a pattern that ends with '/', is_excluded is true of an entry
\* (other than the output file) exactly when its root-relative path is the
\* pattern without its trailing separators, or lies below that path.
C5_DirectoryMarker ==
    (/\ probe.called
     /\ ProbePattern[Len(ProbePattern)] = "/"
     /\ probe.item_path_abs # probe.output_file_path_abs)
    => (probe.result <=> IsAtOrBelow(ProbePath, WithoutTrailingSeparators(ProbePattern)))

\* node_modules/ on node_modules/sub/file.js: excluded
C5_Witness ==
    /\ probe.called
    /\ ProbePattern = <<"n","o","d","e","_","m","o","d","u","l","e","s","/">>
    /\ probe.item_path_abs = <<"/","p","/","n","o","d","e","_","m","o","d","u","l","e","s","/","s","u","b","/","f","i","l","e",".","j","s">>
    /\ probe.result

\* ------------------------------------------------------------------------
\* C6: patterns without a trailing '/'

\* a path of the shape a/<name>.log: a .log entry directly inside a
IsLogDirectlyInA(path) ==
    /\ startswith(path, <<"a","/">>)
    /\ endswith(path, <<".","l","o","g">>)
    /\ \A i \in 3..Len(path) : path[i] # "/"

\* C6: a pattern without '/' is matched against the base name only, so
\* `*.log` excludes a/b/c/out.log; a pattern with '/' inside is matched
\* against the whole path, so `a/*.log` excludes exactly the .log entries
\* directly inside a, and neither b/out.log nor a/b/c/out.log.
C6_BasenameAndPathShape ==
    (/\ probe.called
     /\ ProbePattern[Len(ProbePattern)] # "/"
     /\ probe.item_path_abs # probe.output_file_path_abs)
    => /\ ~Contains(ProbePattern, "/") =>
              (probe.result <=> fnmatchcase(name(ProbePath), ProbePattern))
       /\ (ProbePattern = <<"*",".","l","o","g">> /\ ProbePath = <<"a","/","b","/","c","/","o","u","t",".","l","o","g">>) => probe.result
       /\ ProbePattern = <<"a","/","*",".","l","o","g">> => (probe.result <=> IsLogDirectlyInA(ProbePath))

\* ------------------------------------------------------------------------
\* C7: the include set's three-step fallback

\* the places of s that bound its comma-separated parts
Bounds(s) == {0, Len(s) + 1} \cup {i \in 1..Len(s) : s[i] = ","}

\* the parts of s between two neighbouring bounds, stripped, as a set of
\* <<left bound, token>> with the empty ones left out
TokenSet(s) ==
    {<<b, strip([i \in 1..(CHOOSE c \in Bounds(s) :
                              c > b /\ \A d \in Bounds(s) : d > b => d >= c) - b - 1
                 |-> s[b + i]])>> : b \in Bounds(s) \ {Len(s) + 1}}

\* ext -> *.ext, .ext -> *.ext, *.ext unchanged
Expanded(token) ==
    IF Len(token) >= 2 /\ token[1] = "*" /\ token[2] = "." THEN token
    ELSE IF token[1] = "." THEN <<"*">> \o token
    ELSE <<"*", ".">> \o token

\* patterns is the expansion of the tokens of s, in their order
IsExpansionOf(patterns, s) ==
    LET tokens == {t \in TokenSet(s) : t[2] # <<>>}
    IN  /\ Len(patterns) = Cardinality(tokens)
        /\ \A t \in tokens :
               patterns[Cardinality({u \in tokens : u[1] <= t[1]})] = Expanded(t[2])

\* C7: the include set is the explicit `*.ext` lines when there is one;
\* else the expanded tokens of default_extensions when it has a value; else
\* *.js, *.jsx.  `py, .ts, *.md` alone gives *.py, *.ts, *.md.
C7_IncludeFallback ==
    Merged =>
        LET default_extensions == run.loaded_cfg_settings.default_extensions_str
        IN  /\ IF ExtensionPatternLines # <<>>
               THEN run.final_include_extensions = ExtensionPatternLines
               ELSE IF Supplied(default_extensions)
               THEN IsExpansionOf(run.final_include_extensions, Val(default_extensions))
               ELSE run.final_include_extensions = << <<"*",".","j","s">>, <<"*",".","j","s","x">> >>
            /\ RuleFileLines = << <<"d","e","f","a","u","l","t","_","e","x","t","e","n","s","i","o","n","s",":","p","y",","," ",".","t","s",","," ","*",".","m","d">> >>
                   => run.final_include_extensions = << <<"*",".","p","y">>, <<"*",".","t","s">>, <<"*",".","m","d">> >>

\* a run on the rule file `default_extensions:py, .ts, *.md`
C7_Witness ==
    /\ Merged
    /\ RuleFileLines = << <<"d","e","f","a","u","l","t","_","e","x","t","e","n","s","i","o","n","s",":","p","y",","," ",".","t","s",","," ","*",".","m","d">> >>
    /\ run.final_include_extensions = << <<"*",".","p","y">>, <<"*",".","t","s">>, <<"*",".","m","d">> >>

\* ------------------------------------------------------------------------
\* C8: what a scan selects

\* the pattern, with '\' as '/', matches the entry with this root-relative
\* path: as a directory marker, as a glob on the whole path, or as a glob on
\* the base name
Matches(path, pattern) ==
    LET p == [i \in 1..Len(pattern) |-> IF pattern[i] = "\\" THEN "/" ELSE pattern[i]]
    IN  IF p[Len(p)] = "/" THEN IsAtOrBelow(path, WithoutTrailingSeparators(p))
        ELSE IF \E i \in 1..Len(p) : p[i] = "/" THEN fnmatchcase(path, p)
        ELSE fnmatchcase(name(path), pattern)

\* the session prompt path the settings name, used or not
EffectiveSessionPromptPath ==
    IF Supplied(args.session_prompt_file_cli)
    THEN Some(resolve(cwd, Val(args.session_prompt_file_cli)))
    ELSE IF Supplied(run.loaded_cfg_settings.session_prompt_file)
    THEN Some(join(RootPath, Val(run.loaded_cfg_settings.session_prompt_file)))
    ELSE None

\* C8: after the scan every selected path is a regular file below the root,
\* is neither the output path nor the session prompt path, is matched by no
\* exclude pattern, and has a base name some include pattern matches.
C8_Selection ==
    Scanned =>
        \A i \in 1..Len(run.files_to_process) :
            LET f == run.files_to_process[i]
            IN  /\ f \in DOMAIN fs /\ fs[f].kind = "file"
                /\ is_relative_to(f, RootPath)
                /\ Some(f) # run.final_output_path
                /\ Some(f) # EffectiveSessionPromptPath
                /\ \A j \in 1..Len(run.final_exclude_patterns) :
                       ~Matches(relative_to(f, RootPath), run.final_exclude_patterns[j])
                /\ \E j \in 1..Len(run.final_include_extensions) :
                       fnmatchcase(name(f), run.final_include_extensions[j])

\* a second run with --no-session-prompt whose output file out.js and
\* session prompt file src/prompt.js both match *.js, as does the excluded
\* node_modules/pkg/index.js: none of the three is selected, main.js is
C8_Witness ==
    /\ Scanned /\ runs = 2
    /\ args.no_session_prompt
    /\ run.final_output_path = Some(<<"/","p","/","o","u","t",".","j","s">>) /\ is_file(fs, <<"/","p","/","o","u","t",".","j","s">>)
    /\ run.final_session_prompt_path = Some(<<"/","p","/","s","r","c","/","p","r","o","m","p","t",".","j","s">>)
    /\ is_file(fs, <<"/","p","/","s","r","c","/","p","r","o","m","p","t",".","j","s">>)
    /\ InSeq(<<"*",".","j","s">>, run.final_include_extensions)
    /\ InSeq(<<"n","o","d","e","_","m","o","d","u","l","e","s","/">>, run.final_exclude_patterns)
    /\ InSeq(<<"/","p","/","m","a","i","n",".","j","s">>, run.files_to_process)
    /\ ~InSeq(<<"/","p","/","o","u","t",".","j","s">>, run.files_to_process)
    /\ ~InSeq(<<"/","p","/","s","r","c","/","p","r","o","m","p","t",".","j","s">>, run.files_to_process)
    /\ ~InSeq(<<"/","p","/","n","o","d","e","_","m","o","d","u","l","e","s","/","p","k","g","/","i","n","d","e","x",".","j","s">>, run.files_to_process)

\* ------------------------------------------------------------------------
\* C9: a missing or unreadable rule file

RuleFilePath == ConfigFilePath(cwd, RootPath, args.config)

RuleFileMissing == ~is_file(fs, RuleFilePath)

RuleFileUnreadable == is_file(fs, RuleFilePath) /\ ~fs[RuleFilePath].readable

\* the last command was a run that found its root and called parse_config
Parsed == last_cmd = "run" /\ run.outcome \notin {"root_not_found", "root_not_dir"}

C10_Idempotent ==
    [][(/\ last_cmd = "run" /\ last_cmd' = "run"
        /\ run.outcome \in {"written", "written_empty"})
       => /\ \/ run'.outcome = run.outcome
             \/ run'.outcome = "aborted" /\ run'.confirm_asked
          /\ run'.files_to_process = run.files_to_process
          /\ run'.final_output_path = run.final_output_path
          /\ fs'[Val(run'.final_output_path)] = fs[Val(run.final_output_path)]]_vars

\* a second run, right after the first, whose output file out.js lies in
\* the root and matches the include pattern *.js
C10_Witness ==
    /\ last_cmd = "run" /\ runs = 2 /\ run.outcome = "written"
    /\ run.final_output_path = Some(<<"/","p","/","o","u","t",".","j","s">>)
    /\ InSeq(<<"*",".","j","s">>, run.final_include_extensions)
    /\ Len(run.files_to_process) >= 2
    /\ ~InSeq(<<"/","p","/","o","u","t",".","j","s">>, run.files_to_process)

\* ------------------------------------------------------------------------
\* C11

\* the regular files of a file system
RegularFiles(files) == {p \in DOMAIN files : files[p].kind = "file"}

\* the outcomes of a run that returns before the output file is opened
AbortedOutcomes == {"root_not_found", "root_not_dir", "mkdir_error", "aborted"}

\* C11: a run that ends because the root is missing or no directory, the
\* output directory cannot be made, or the user declines or fails to answer
\* the large-run prompt, leaves every regular file as it was and makes none
\* (so the output file of an earlier run is unchanged and no partial output
\* exists); and the prompt is asked exactly of a run that selected more than
\* FILES_COUNT_WARNING_THRESHOLD files, which alone can end "aborted".
C11_AbortLeavesOutput ==
    [][ /\ (runs' = runs + 1 /\ run'.outcome \in AbortedOutcomes)
           => /\ RegularFiles(fs') = RegularFiles(fs)
              /\ \A p \in RegularFiles(fs) : fs'[p] = fs[p]
        /\ (runs' = runs + 1)
           => /\ run'.confirm_asked
                 <=> Len(run'.files_to_process) > FILES_COUNT_WARNING_THRESHOLD
              /\ run'.outcome = "aborted" => run'.confirm_asked
              /\ Len(run'.files_to_process) = FILES_COUNT_WARNING_THRESHOLD
                 => run'.outcome = "written" ]_vars

\* a run was answered 'Y' and wrote its output, and the next run was
\* declined: the output of the first is still there
C11_Witness ==
    /\ runs = 2
    /\ last_cmd = "run"
    /\ run.outcome = "aborted"
    /\ Len(run.files_to_process) = FILES_COUNT_WARNING_THRESHOLD + 1
    /\ is_file(fs, join(Root, DEFAULT_OUTPUT_FILENAME))
    /\ Len(fs[join(Root, DEFAULT_OUTPUT_FILENAME)].content) > FILES_COUNT_WARNING_THRESHOLD

\* ------------------------------------------------------------------------
\* C12

\* the session prompt as the run loaded it, "" when none was loaded
LoadedPrompt ==
    SessionPromptContent(fs, RootPath, run.use_session_prompt, run.final_session_prompt_path)

\* how many strings the output holds before the first record
PromptWrites == IF LoadedPrompt = <<>> THEN 0 ELSE 2

\* the root-relative path of the i-th selected file
RelativePath(i) == relative_to(run.files_to_process[i], RootPath)

\* whether s is the body written for the i-th selected file: its text, or
\* an error marker naming it when it cannot be read
IsBodyOf(s, i) ==
    IF fs[run.files_to_process[i]].readable
    THEN s = Flatten(fs[run.files_to_process[i]].content)
    ELSE Contains(s, "[") /\ Contains(s, "]")
         /\ \E k \in 1..Len(s) :
                startswith(SubSeq(s, k, Len(s)),
                           <<"[","E","r","r","o","r"," ","r","e","a","d","i","n","g"," ","f","i","l","e"," ">> \o RelativePath(i) \o <<":">>)

\* C12: a run that selected at least one file and wrote its output wrote
\* the loaded session prompt and the separator first, then one record for
\* each selected file, in the order of the selection and nothing else; the
\* record of a file that cannot be read holds an error marker in place of
\* its text, and the records after it are written all the same.  With
\* headers a record is the START marker, the body, the END marker and a
\* separator, the markers naming the root-relative path; without headers it
\* is the body, and a separator between two records.
C12_OneRecordPerFile ==
    (last_cmd = "run" /\ run.outcome = "written") =>
        LET n == Len(run.files_to_process)
            k == PromptWrites
        IN  /\ n >= 1
            /\ k = 2 => /\ Output[1] = LoadedPrompt
                        /\ Output[2] = SESSION_PROMPT_CODE_SEPARATOR
            /\ IF ~run.final_no_header
               THEN /\ Len(Output) = k + 4 * n
                    /\ \A i \in 1..n :
                          /\ Output[k + 4 * i - 3]
                             = <<"-","-","-"," ","S","T","A","R","T"," ","F","I","L","E",":"," ">> \o RelativePath(i) \o <<" ","-","-","-","\n">>
                          /\ IsBodyOf(Output[k + 4 * i - 2], i)
                          /\ Output[k + 4 * i - 1]
                             = <<"\n","-","-","-"," ","E","N","D"," ","F","I","L","E",":"," ">> \o RelativePath(i) \o <<" ","-","-","-">>
                          /\ Output[k + 4 * i] = (IF i < n THEN <<"\n","\n">> ELSE <<"\n">>)
               ELSE /\ Len(Output) = k + 2 * n - 1
                    /\ \A i \in 1..n :
                          /\ IsBodyOf(Output[k + 2 * i - 1], i)
                          /\ i < n => Output[k + 2 * i] = <<"\n","\n">>

\* a run with headers and a loaded session prompt wrote the records of
\* several files, of which the second could not be read and a later one could
C12_Witness ==
    /\ last_cmd = "run"
    /\ run.outcome = "written"
    /\ ~run.final_no_header
    /\ LoadedPrompt # <<>>
    /\ Len(run.files_to_process) >= 3
    /\ ~fs[run.files_to_process[2]].readable
    /\ fs[run.files_to_process[3]].readable
    /\ Len(Output) = 2 + 4 * Len(run.files_to_process)

\* ------------------------------------------------------------------------
\* C13

\* the directories below the root that some exclude pattern of the run
\* excludes
ExcludedDirectories ==
    {d \in DOMAIN fs :
        /\ fs[d].kind = "dir"
        /\ d # RootPath
        /\ is_relative_to(d, RootPath)
        /\ \E j \in 1..Len(run.final_exclude_patterns) :
               Matches(relative_to(d, RootPath), run.final_exclude_patterns[j])}

\* C13: no file beneath a directory that an exclude pattern of any kind
\* excludes is selected; with the rule-file line `build` and the directory
\* build, build/x.js is not selected.
C13_ExcludedDirectoryPrunes ==
    Scanned =>
        \A d \in ExcludedDirectories :
            \A i \in 1..Len(run.files_to_process) :
                ~IsAtOrBelow(run.files_to_process[i], d)

\* ------------------------------------------------------------------------
\* C14

\* whether the default_extensions value of the rule file holds a token: a
\* character that is neither a comma nor whitespace
HasUsableToken ==
    LET default_extensions == run.loaded_cfg_settings.default_extensions_str
    IN  /\ Supplied(default_extensions)
        /\ \E i \in 1..Len(Val(default_extensions)) :
               Val(default_extensions)[i] \notin Whitespace \cup {","}

\* C14: for every rule file the include list parse_config returns is not
\* empty, and it is [*.js, *.jsx] when the rule file has neither an explicit
\* `*.ext` line nor a default_extensions value with a usable token (a value
\* of commas and whitespace only, or one emptied by comment stripping).
C14_IncludeNeverEmpty ==
    Merged =>
        /\ run.final_include_extensions # <<>>
        /\ (ExtensionPatternLines = <<>> /\ ~HasUsableToken)
               => run.final_include_extensions = << <<"*",".","j","s">>, <<"*",".","j","s","x">> >>
====
